---- MODULE Spec2Model ----
(***************************************************************************)
(* Meta scoring aggregator (src/meta_scorer/scoring_aggregator.py).        *)
(*                                                                         *)
(* One MetaScoringAggregator instance: it is constructed from a            *)
(* configuration source and then serves scoring calls one after another.   *)
(* A scoring call is followed through its program positions: entry and     *)
(* input validation, one iteration of the dispatcher loop per module, and  *)
(* the final clamp / decision / return.                                    *)
(*                                                                         *)
(* Representation of Python values                                         *)
(*   dict            [type |-> "dict", items |-> f], f a function whose    *)
(*                   DOMAIN is the set of keys                             *)
(*   non-dict value  [type |-> "str", value |-> s]                         *)
(*   None            the empty sequence << >> (None and the empty list are *)
(*                   the only falsy values held by the slots it is used in)*)
(*   str built by an f-string or join: the sequence of its fragments       *)
(*   float           fixed point.  Scores are held in 1/Unit of a point,   *)
(*                   so that a configured bonus of 2.5 is representable;   *)
(*                   measured quantities (affinity, rmsd, logP, ...) are   *)
(*                   held in tenths or hundredths, they are only compared. *)
(*   float('inf')    Inf, larger than every finite number of the model     *)
(***************************************************************************)
EXTENDS Integers, Sequences, FiniteSets, TLC

VARIABLES
    config_path,        \* the configuration source __init__ was given
    aggregator,         \* "none" | "ready" | "failed": outcome of __init__
    config,             \* self.config, None until loaded
    init_error,         \* the exception __init__ raised, None if none
    pc,                 \* position of the call: "idle" | "score" | "decide"
    module_outputs,     \* argument of the current / last call
    idx,                \* position of the dispatcher loop (1..7)
    score_breakdown,    \* local of aggregate_scores
    failure_rationale,  \* local of aggregate_scores
    total_score,        \* local of aggregate_scores
    result,             \* dict returned by the last call, None if none
    error,              \* exception raised by the last call, None if none
    memo                \* history: one completed call (input and outcome), and
                        \* whether a call with another input was made since

vars == <<config_path, aggregator, config, init_error, pc, module_outputs, idx,
          score_breakdown, failure_rationale, total_score, result, error, memo>>

-----------------------------------------------------------------------------
(* Bounds of the model *)

\* scores are held in 1/Unit of a point
Unit == 2
\* num_models_flagged ranges over 0..MaxFlagged
MaxFlagged == 4
\* num_violations ranges over -1..MaxViolations, and 99
MaxViolations == 6

\* float('inf')
Inf == 1000000

None == << >>

P(n) == n * Unit

-----------------------------------------------------------------------------
(* Python helpers *)

Dict(items) == [type |-> "dict", items |-> items]

NotADict == [type |-> "str", value |-> "invalid"]

EmptyDict == Dict(<< >>)

isinstance_dict(v) == v.type = "dict"

\* d.get(key, default)
get(d, key, default) == IF key \in DOMAIN d.items THEN d.items[key] ELSE default

\* key in d
has(d, key) == key \in DOMAIN d.items

\* str.lower() on the strings the model uses
lower(s) ==
    CASE s = "HIGH" -> "high"
      [] s = "High" -> "high"
      [] s = "ACCEPTABLE" -> "acceptable"
      [] s = "Acceptable" -> "acceptable"
      [] s = "Moderate" -> "moderate"
      [] OTHER -> s

max2(a, b) == IF a >= b THEN a ELSE b

min2(a, b) == IF a <= b THEN a ELSE b

\* max(keys) of a non-empty collection of numbers
maxOf(S) == CHOOSE m \in S : \A k \in S : k <= m

\* int(x): truncation toward zero of a score held in 1/Unit, in whole points
int(x) == IF x >= 0 THEN x \div Unit ELSE -((-x) \div Unit)

\* sep.join(parts), as a sequence of fragments
RECURSIVE join(_, _)
join(sep, parts) ==
    IF Len(parts) = 0 THEN << >>
    ELSE IF Len(parts) = 1 THEN <<parts[1]>>
    ELSE <<parts[1], sep>> \o join(sep, Tail(parts))

\* x in list
inList(x, list) == \E i \in 1..Len(list) : list[i] = x

\* [f(e) for e in list]
lowerAll(list) == [i \in 1..Len(list) |-> lower(list[i])]

\* the list taken whole: every high-risk model counts, listed or not
filterIn_all(list, keep) == list

\* [m for m in list if m in keep]
filterIn(list, keep) == SelectSeq(list, LAMBDA m : inList(m, keep))

ScoringError(msg, args) == [type |-> "ScoringError", msg |-> msg, args |-> args]

AttributeError == [type |-> "AttributeError", msg |-> "object has no attribute 'get'", args |-> << >>]

-----------------------------------------------------------------------------
(* Module scoring functions.  Each takes the module's record (a dict) and  *)
(* the module's thresholds (a dict of the loaded configuration).           *)

required_modules ==
    <<"docking", "adme_pk", "toxicity", "druggability", "drug_likeness", "off_target">>

required_sections == <<"weights", "thresholds">>

\* the tiers with their bounds included: <= in place of <
docking_base_inclusive(affinity, config_) ==
    IF affinity <= config_["affinity"]["high"] THEN P(25)
    ELSE IF affinity <= config_["affinity"]["medium"] THEN P(20)
    ELSE IF affinity <= config_["affinity"]["low"] THEN P(10)
    ELSE 0

docking_base(affinity, config_) ==
    IF affinity < config_["affinity"]["high"] THEN P(25)
    ELSE IF affinity < config_["affinity"]["medium"] THEN P(20)
    ELSE IF affinity < config_["affinity"]["low"] THEN P(10)
    ELSE 0

_score_docking(docking_data, config_) ==
    LET affinity == get(docking_data, "affinity_kcal", 0)
        rmsd     == get(docking_data, "rmsd", Inf)
        poses    == get(docking_data, "num_converged_poses", 0)
        score0   == docking_base(affinity, config_)
        score1   == IF rmsd > config_["rmsd_max"] \/ poses < config_["min_poses"]
                    THEN score0 - P(5) ELSE score0
    IN  max2(score1, 0)

_score_adme_pk(adme_data, config_) ==
    LET s1 == IF /\ config_["logP_range"][1] <= get(adme_data, "logP", -10)
                 /\ get(adme_data, "logP", -10) <= config_["logP_range"][2]
              THEN P(5) ELSE 0
        s2 == IF lower(get(adme_data, "HIA", "")) = "high" THEN s1 + P(5) ELSE s1
        s3 == IF get(adme_data, "half_life_hr", 0) > config_["half_life_min"]
              THEN s2 + P(5) ELSE s2
        s4 == IF inList(lower(get(adme_data, "clearance", "")),
                        lowerAll(config_["clearance_acceptable"]))
              THEN s3 + P(5) ELSE s3
        s5 == IF get(adme_data, "CYP_inhibition", FALSE)
              THEN s4 + config_["cyp_inhibition_penalty"] ELSE s4
    IN  max2(s5, 0)

toxicity_flag_reason(config_) ==
    <<">", ToString(config_["max_flags_allowed"]), " toxicity models flagged">>

\* the override taken from the maximum itself on: >= in place of >
toxicity_base_inclusive(num_flagged, config_) ==
    IF num_flagged = 0 THEN <<P(20), None>>
    ELSE IF num_flagged = 1 THEN <<P(10), None>>
    ELSE IF num_flagged >= config_["max_flags_allowed"]
         THEN <<0, toxicity_flag_reason(config_)>>
    ELSE <<0, None>>

\* the if / elif / elif chain on num_flagged: <<score, failure_reason>>
toxicity_base(num_flagged, config_) ==
    IF num_flagged = 0 THEN <<P(20), None>>
    ELSE IF num_flagged = 1 THEN <<P(10), None>>
    ELSE IF num_flagged > config_["max_flags_allowed"]
         THEN <<0, toxicity_flag_reason(config_)>>
    ELSE <<0, None>>

\* returns the tuple <<score, failure_reason>>
_score_toxicity(tox_data, config_) ==
    LET num_flagged == get(tox_data, "num_models_flagged", 0)
        base == toxicity_base(num_flagged, config_)
        high_risk_penalties ==
            filterIn(get(tox_data, "high_risk_models", << >>), config_["override_models"])
        penalty_reason ==
            <<"High-risk models flagged: ">> \o join(", ", high_risk_penalties)
    IN  IF Len(high_risk_penalties) > 0
        THEN << max2(base[1] - P(10) * Len(high_risk_penalties), 0),
                IF base[2] # None THEN base[2] \o <<"; ">> \o penalty_reason
                ELSE penalty_reason >>
        ELSE << max2(base[1], 0), base[2] >>

_score_druggability(drugg_data, config_) ==
    LET s1 == IF get(drugg_data, "pocket_score", 0) > config_["high_score"] THEN P(10)
              ELSE IF get(drugg_data, "pocket_score", 0) >= config_["mid_score"] THEN P(5)
              ELSE 0
    IN  IF /\ get(drugg_data, "volume", 0) >= config_["bonus_volume_min"]
           /\ get(drugg_data, "hydrophobicity", 0) >= config_["bonus_hydrophobicity_min"]
        THEN s1 + config_["volume_hydrophobicity_bonus"]
        ELSE s1

\* the lookup key left as it is: a count above the largest key finds no entry
drug_likeness_key_unclamped(violations, score_table) == violations

\* the clamped lookup key: min(violations, max(score_table.keys()))
drug_likeness_key(violations, score_table) ==
    min2(violations, maxOf(DOMAIN score_table))

_score_drug_likeness(dl_data, config_) ==
    LET violations  == get(dl_data, "num_violations", Inf)
        score_table == config_["score_by_violations"]
        key         == drug_likeness_key(violations, score_table)
    IN  IF key \in DOMAIN score_table THEN score_table[key] ELSE 0

_score_off_target(ot_data, config_) ==
    LET si         == get(ot_data, "selectivity_index", 0)
        thresholds == config_["si_thresholds"]
        s1 == IF si > thresholds[3] THEN P(15)
              ELSE IF si > thresholds[2] THEN P(10)
              ELSE IF si > thresholds[1] THEN P(5)
              ELSE 0
    IN  IF get(ot_data, "num_off_targets", Inf) < config_["low_target_bonus_threshold"]
        THEN s1 + config_["low_target_bonus"]
        ELSE s1

\* the dispatcher: the rule of a module applied to its record and thresholds;
\* every rule but toxicity returns a bare score
scoring_functions(module_name, module_data, module_config) ==
    CASE module_name = "docking"       -> <<_score_docking(module_data, module_config), None>>
      [] module_name = "adme_pk"       -> <<_score_adme_pk(module_data, module_config), None>>
      [] module_name = "toxicity"      -> _score_toxicity(module_data, module_config)
      [] module_name = "druggability"  -> <<_score_druggability(module_data, module_config), None>>
      [] module_name = "drug_likeness" -> <<_score_drug_likeness(module_data, module_config), None>>
      [] module_name = "off_target"    -> <<_score_off_target(module_data, module_config), None>>

-----------------------------------------------------------------------------
(* Configurations.  score_config.yaml is data, read at construction; the   *)
(* model ranges over documents of the shape the rules read.  The values of *)
(* BaseThresholds are the ones the repository's tests expect of the default*)
(* configuration (12 = 10 + 2 for druggability, 18 = 15 + 3 for off_target,*)
(* two override models); the parameters are the values no rule floors or   *)
(* bounds: the flag maximum, the two bonuses and the violations table.     *)

Restrict(f, S) == [k \in S |-> f[k]]

Range(seq) == {seq[i] : i \in 1..Len(seq)}

Modules == Range(required_modules)

BaseWeights ==
    [docking |-> 25, adme_pk |-> 20, toxicity |-> 20,
     druggability |-> 10, drug_likeness |-> 10, off_target |-> 15]

\* violations -> score tables: dense, sparse, and one with a negative entry
ScoreTables ==
    { (0 :> P(10)) @@ (1 :> P(5)) @@ (2 :> P(2)) @@ (3 :> 0) @@ (4 :> 0) @@ (5 :> 0),
      (0 :> P(10)) @@ (2 :> P(4)) @@ (5 :> P(1)),
      (0 :> P(10)) @@ (1 :> P(5)) @@ (2 :> 0) @@ (3 :> P(-5)) }

MaxFlagsAllowed == {0, 3}

\* 2, -5 and 2.5 points
VolumeBonuses == {P(2), P(-5), P(2) + 1}

LowTargetBonuses == {P(3), P(-3)}

BaseThresholds(max_flags, volume_bonus, low_target_bonus, score_table) ==
    [docking |->
        [affinity |-> [high |-> -90, medium |-> -80, low |-> -70],
         rmsd_max |-> 30, min_poses |-> 3],
     adme_pk |->
        [logP_range |-> <<0, 50>>, half_life_min |-> 20,
         clearance_acceptable |-> <<"Acceptable", "moderate">>,
         cyp_inhibition_penalty |-> P(-5)],
     toxicity |->
        [max_flags_allowed |-> max_flags,
         override_models |-> <<"DILIrank", "ProTox-II">>],
     druggability |->
        [high_score |-> 70, mid_score |-> 50, bonus_volume_min |-> 400,
         bonus_hydrophobicity_min |-> 50, volume_hydrophobicity_bonus |-> volume_bonus],
     drug_likeness |-> [score_by_violations |-> score_table],
     off_target |->
        [si_thresholds |-> <<20, 50, 100>>, low_target_bonus_threshold |-> 5,
         low_target_bonus |-> low_target_bonus]]

\* documents that pass _validate_config
ValidDocuments ==
    { [weights |-> BaseWeights, thresholds |-> BaseThresholds(mf, vb, lb, tab)] :
        mf \in MaxFlagsAllowed, vb \in VolumeBonuses,
        lb \in LowTargetBonuses, tab \in ScoreTables }

DefaultDocument ==
    [weights |-> BaseWeights,
     thresholds |-> BaseThresholds(3, P(2), P(3),
        (0 :> P(10)) @@ (1 :> P(5)) @@ (2 :> P(2)) @@ (3 :> 0) @@ (4 :> 0) @@ (5 :> 0))]

\* documents that lack a section
MissingSectionDocuments ==
    { Restrict(DefaultDocument, S) @@ [version |-> 1] :
        S \in (SUBSET {"weights", "thresholds"}) \ {{"weights", "thresholds"}} }
    \cup { [weights |-> Restrict(BaseWeights, Modules \ {"docking"})],
           [thresholds |-> Restrict(DefaultDocument.thresholds, Modules \ {"docking"})] }

\* documents that have both sections and lack a module in one or both
MissingModuleDocuments ==
    { [weights |-> Restrict(BaseWeights, Modules \ W),
       thresholds |-> Restrict(DefaultDocument.thresholds, Modules \ T)] :
        W \in {{}, {"docking"}, {"toxicity"}, {"off_target"}, {"adme_pk", "off_target"}},
        T \in {{}, {"docking"}, {"adme_pk"}, {"off_target"}, {"docking", "drug_likeness"}} }
    \ {DefaultDocument}

\* << >> is what safe_load gives for an empty file (None) or an empty mapping
InvalidDocuments == {<< >>} \cup MissingSectionDocuments \cup MissingModuleDocuments

\* a configuration source: the path may not exist, the text may not parse
ConfigSources ==
    { [exists |-> FALSE, parses |-> FALSE, document |-> << >>],
      [exists |-> TRUE,  parses |-> FALSE, document |-> << >>] }
    \cup { [exists |-> TRUE, parses |-> TRUE, document |-> d] :
             d \in ValidDocuments \cup InvalidDocuments }

-----------------------------------------------------------------------------
(* Construction: __init__, _load_config, _validate_config *)

\* _load_config: <<config, exception>>
_load_config(source) ==
    IF ~source.exists
    THEN <<None, ScoringError("Error loading configuration: ",
                              <<"Configuration file not found: ", "config_path">>)>>
    ELSE IF ~source.parses
    THEN <<None, ScoringError("Invalid YAML format: ", << >>)>>
    ELSE IF source.document = << >>
    THEN <<None, ScoringError("Error loading configuration: ",
                              <<"Configuration file is empty or invalid">>)>>
    ELSE <<source.document, None>>

\* the second loop of _validate_config, from module i on
RECURSIVE validate_modules(_, _)
validate_modules(cfg, i) ==
    IF i > Len(required_modules) THEN None
    ELSE IF required_modules[i] \notin DOMAIN cfg["weights"]
    THEN ScoringError("Missing weight for module: ", <<required_modules[i]>>)
    ELSE IF required_modules[i] \notin DOMAIN cfg["thresholds"]
    THEN ScoringError("Missing thresholds for module: ", <<required_modules[i]>>)
    ELSE validate_modules(cfg, i + 1)

\* the first loop of _validate_config, from section i on
RECURSIVE validate_sections(_, _)
validate_sections(cfg, i) ==
    IF i > Len(required_sections) THEN None
    ELSE IF required_sections[i] \notin DOMAIN cfg
    THEN ScoringError("Missing required config section: ", <<required_sections[i]>>)
    ELSE validate_sections(cfg, i + 1)

\* the per-module checks made before the section checks (a section that is
\* absent taken as complete)
_validate_config_modules_first(cfg) ==
    LET full == [s \in Range(required_sections) |->
                    IF s \in DOMAIN cfg THEN cfg[s] ELSE BaseWeights]
    IN  IF validate_modules(full, 1) # None THEN validate_modules(full, 1)
        ELSE validate_sections(cfg, 1)

\* _validate_config: the exception raised, None if none
_validate_config(cfg) ==
    IF validate_sections(cfg, 1) # None THEN validate_sections(cfg, 1)
    ELSE validate_modules(cfg, 1)

-----------------------------------------------------------------------------
(* Inputs of a scoring call.  A field of a record is optional: Some(v) is  *)
(* a field that is present, Absent one that is left out.                   *)

Absent == << >>

Some(v) == <<v>>

Maybe(S) == {Absent} \cup {Some(v) : v \in S}

\* the items a field contributes to its record
Field(key, opt) == IF opt = Absent THEN << >> ELSE key :> opt[1]

DockingRecords ==
    { Dict(Field("affinity_kcal", a) @@ Field("rmsd", r) @@ Field("num_converged_poses", p)) :
        a \in Maybe({-95, -90, -85, -80, -75, -70, -50}),
        r \in Maybe({30, 31}),
        p \in Maybe({2, 3}) }

AdmeRecords ==
    { Dict(Field("logP", l) @@ Field("HIA", h) @@ Field("half_life_hr", t)
           @@ Field("clearance", c) @@ Field("CYP_inhibition", y)) :
        l \in Maybe({50, 51}),
        h \in Maybe({"HIGH", "low"}),
        t \in {Some(20), Some(21)},
        c \in Maybe({"ACCEPTABLE", "poor"}),
        y \in Maybe({TRUE}) }

ToxicityRecords ==
    { Dict(Field("num_models_flagged", n) @@ Field("high_risk_models", m)) :
        n \in Maybe(0..MaxFlagged),
        m \in Maybe({<< >>, <<"DILIrank">>, <<"DILIrank", "ProTox-II">>,
                     <<"hERG">>, <<"hERG", "ProTox-II">>, <<"ProTox-II", "ProTox-II">>}) }

DruggabilityRecords ==
    { Dict(Field("pocket_score", s) @@ Field("volume", v) @@ Field("hydrophobicity", h)) :
        s \in Maybe({49, 50, 70, 71}),
        v \in Maybe({399, 400}),
        h \in Maybe({49, 50}) }

DrugLikenessRecords ==
    { Dict(Field("num_violations", v)) : v \in Maybe((-1..MaxViolations) \cup {99}) }

OffTargetRecords ==
    { Dict(Field("selectivity_index", s) @@ Field("num_off_targets", n)) :
        s \in Maybe({20, 21, 50, 51, 100, 101}),
        n \in Maybe({4, 5}) }

\* every record of a module the model ranges over, and a value that is no dict
Records(module) ==
    {NotADict} \cup
    CASE module = "docking"       -> DockingRecords
      [] module = "adme_pk"       -> AdmeRecords
      [] module = "toxicity"      -> ToxicityRecords
      [] module = "druggability"  -> DruggabilityRecords
      [] module = "drug_likeness" -> DrugLikenessRecords
      [] module = "off_target"    -> OffTargetRecords

\* a few records of each module, from the best to the worst, for the bundles
\* in which every module varies
FewRecords ==
    [docking |->
        { Dict([affinity_kcal |-> -95, rmsd |-> 15, num_converged_poses |-> 5]),
          Dict([affinity_kcal |-> -50, rmsd |-> 40, num_converged_poses |-> 1]) },
     adme_pk |->
        { Dict([logP |-> 30, HIA |-> "high", half_life_hr |-> 50,
                CYP_inhibition |-> FALSE, clearance |-> "acceptable"]),
          Dict([logP |-> 80, HIA |-> "low", half_life_hr |-> 10,
                CYP_inhibition |-> TRUE, clearance |-> "poor"]) },
     toxicity |->
        { Dict([num_models_flagged |-> 0, high_risk_models |-> << >>]),
          Dict([num_models_flagged |-> 1, high_risk_models |-> << >>]),
          Dict([num_models_flagged |-> 4, high_risk_models |-> <<"DILIrank", "ProTox-II">>]) },
     druggability |->
        { Dict([pocket_score |-> 80, volume |-> 450, hydrophobicity |-> 60]),
          Dict([pocket_score |-> 30, volume |-> 450, hydrophobicity |-> 60]),
          Dict([pocket_score |-> 30, volume |-> 200, hydrophobicity |-> 20]) },
     drug_likeness |->
        { Dict([num_violations |-> 0]), Dict([num_violations |-> 2]),
          Dict([num_violations |-> 3]) },
     off_target |->
        { Dict([selectivity_index |-> 120, num_off_targets |-> 3]),
          Dict([selectivity_index |-> 10, num_off_targets |-> 3]),
          Dict([selectivity_index |-> 10, num_off_targets |-> 20]) }]

\* the bundle of test_example_calculation_accuracy
BaselineBundle ==
    [docking |-> Dict([affinity_kcal |-> -86, rmsd |-> 21, num_converged_poses |-> 4]),
     adme_pk |-> Dict([logP |-> 23, HIA |-> "high", half_life_hr |-> 34,
                       CYP_inhibition |-> FALSE, clearance |-> "acceptable"]),
     toxicity |-> Dict([toxicity_flag |-> TRUE, num_models_flagged |-> 1,
                        high_risk_models |-> << >>]),
     druggability |-> Dict([pocket_score |-> 78, volume |-> 420, hydrophobicity |-> 60,
                            polarity |-> 30]),
     drug_likeness |-> Dict([num_violations |-> 1, passes |-> TRUE]),
     off_target |-> Dict([num_off_targets |-> 4, avg_affinity_offtarget |-> -61,
                          selectivity_index |-> 65])]

\* bundles with all six modules, every module ranging over its few records
CoarseBundles ==
    { Dict([m \in Modules |-> b[m]]) :
        b \in [docking : FewRecords.docking, adme_pk : FewRecords.adme_pk,
               toxicity : FewRecords.toxicity, druggability : FewRecords.druggability,
               drug_likeness : FewRecords.drug_likeness, off_target : FewRecords.off_target] }

\* the baseline with one module ranging over all its records
DetailedBundles ==
    UNION { { Dict([BaselineBundle EXCEPT ![m] = r]) : r \in Records(m) } : m \in Modules }

\* mappings that lack a module (the empty mapping among them), some with a
\* key that is no module
PartialBundles ==
    { Dict(Restrict(BaselineBundle, S)) : S \in (SUBSET Modules) \ {Modules} }
    \cup { Dict(Restrict(BaselineBundle, Modules \ {m}) @@ [notes |-> EmptyDict]) :
             m \in Modules }

Inputs == {NotADict} \cup PartialBundles \cup CoarseBundles \cup DetailedBundles

\* the calls replayed to compare a call with an earlier one of the same input
ReplayInputs ==
    { NotADict, EmptyDict,
      Dict(Restrict(BaselineBundle, Modules \ {"toxicity", "off_target"})),
      Dict(BaselineBundle),
      Dict([BaselineBundle EXCEPT !["druggability"] = NotADict]),
      Dict([BaselineBundle EXCEPT !["toxicity"] =
                Dict([num_models_flagged |-> 4, high_risk_models |-> <<"DILIrank", "ProTox-II">>])]),
      Dict([BaselineBundle EXCEPT !["toxicity"] =
                Dict([num_models_flagged |-> 1, high_risk_models |-> <<"hERG", "ProTox-II">>])]),
      Dict([BaselineBundle EXCEPT !["docking"] =
                Dict([affinity_kcal |-> -95, rmsd |-> 15, num_converged_poses |-> 5])]) }

-----------------------------------------------------------------------------
(* A scoring call: aggregate_scores and _validate_input *)

\* the missing modules reported one at a time: only the first one is named
_validate_input_first(outputs) ==
    IF ~isinstance_dict(outputs)
    THEN ScoringError("Input must be a dictionary", << >>)
    ELSE IF DOMAIN outputs.items = {}
    THEN ScoringError("Input dictionary cannot be empty", << >>)
    ELSE LET missing == SelectSeq(required_modules, LAMBDA m : ~has(outputs, m))
         IN  IF Len(missing) > 0
             THEN ScoringError("Missing required modules: ", <<missing[1]>>)
             ELSE None

\* _validate_input: the exception raised, None if none
_validate_input(outputs) ==
    IF ~isinstance_dict(outputs)
    THEN ScoringError("Input must be a dictionary", << >>)
    ELSE IF DOMAIN outputs.items = {}
    THEN ScoringError("Input dictionary cannot be empty", << >>)
    ELSE LET missing == SelectSeq(required_modules, LAMBDA m : ~has(outputs, m))
         IN  IF Len(missing) > 0
             THEN ScoringError("Missing required modules: ", missing)
             ELSE None

\* the dispatcher with toxicity, the rule that can veto, moved to the front
scoring_order_toxicity_first ==
    <<"toxicity", "docking", "adme_pk", "druggability", "drug_likeness", "off_target">>

\* the keys of the dispatcher dict, in insertion order
scoring_order ==
    <<"docking", "adme_pk", "toxicity", "druggability", "drug_likeness", "off_target">>

\* a rationale list shared between calls: it still holds the entries of the
\* result returned last
kept_failure_rationale == IF result = None THEN << >> ELSE result.failure_rationale

\* failure_rationale = []
new_failure_rationale == << >>

\* total_score = 0
new_total_score == 0

\* the score floored at 0 and not capped at 100
svs_score_uncapped(total) == max2(int(total), 0)

\* svs_score = min(max(int(total_score), 0), 100), in whole points
svs_score_of(total) == min2(max2(int(total), 0), 100)

\* "go" only above 70
go_decision_above(svs_score, rationale) ==
    IF svs_score > 70 /\ rationale = << >> THEN "go" ELSE "no-go"

go_decision_of(svs_score, rationale) ==
    IF svs_score >= 70 /\ rationale = << >> THEN "go" ELSE "no-go"

\* the locals of aggregate_scores once its frame is gone
NoFrame ==
    /\ idx' = 0
    /\ score_breakdown' = << >>
    /\ failure_rationale' = << >>
    /\ total_score' = 0

Init ==
    /\ config_path = None
    /\ aggregator = "none"
    /\ config = None
    /\ init_error = None
    /\ pc = "idle"
    /\ module_outputs = None
    /\ idx = 0
    /\ score_breakdown = << >>
    /\ failure_rationale = << >>
    /\ total_score = 0
    /\ result = None
    /\ error = None
    /\ memo = None

\* MetaScoringAggregator(source): __init__ with _load_config and _validate_config
Construct(source) ==
    /\ aggregator = "none"
    /\ config_path' = source
    /\ LET loaded == _load_config(source)
       IN  IF loaded[2] # None
           THEN /\ config' = None
                /\ init_error' = loaded[2]
                /\ aggregator' = "failed"
           ELSE /\ config' = loaded[1]
                /\ init_error' = _validate_config(loaded[1])
                /\ aggregator' = IF _validate_config(loaded[1]) = None
                                 THEN "ready" ELSE "failed"
    /\ UNCHANGED <<pc, module_outputs, idx, score_breakdown, failure_rationale,
                   total_score, result, error, memo>>

\* aggregate_scores(outputs) up to the dispatcher loop: validation, then the locals
Call(outputs) ==
    /\ aggregator = "ready"
    /\ pc = "idle"
    /\ module_outputs' = outputs
    /\ result' = None
    /\ IF _validate_input(outputs) # None
       THEN /\ error' = _validate_input(outputs)
            /\ pc' = "idle"
            /\ NoFrame
       ELSE /\ error' = None
            /\ pc' = "score"
            /\ idx' = 1
            /\ score_breakdown' = << >>
            /\ failure_rationale' = new_failure_rationale
            /\ total_score' = new_total_score
    /\ memo' = IF memo = None THEN memo
               ELSE [memo EXCEPT !.other = @ \/ outputs # memo.module_outputs]
    /\ UNCHANGED <<config_path, aggregator, config, init_error>>

\* one iteration of the dispatcher loop
ScoreModule ==
    /\ pc = "score"
    /\ LET module_name   == scoring_order[idx]
           module_data   == get(module_outputs, module_name, EmptyDict)
           module_config == config["thresholds"][module_name]
       IN  IF ~isinstance_dict(module_data)
           THEN /\ error' = AttributeError
                /\ pc' = "idle"
                /\ NoFrame
           ELSE LET scored  == scoring_functions(module_name, module_data, module_config)
                    score   == scored[1]
                    failure == scored[2]
                IN  /\ failure_rationale' =
                         IF module_name = "toxicity" /\ failure # None
                         THEN Append(failure_rationale,
                                     <<"Toxicity override triggered: ">> \o failure)
                         ELSE failure_rationale
                    /\ score_breakdown' = (module_name :> score) @@ score_breakdown
                    /\ total_score' = total_score + score
                    /\ idx' = idx + 1
                    /\ pc' = IF idx = Len(scoring_order) THEN "decide" ELSE "score"
                    /\ error' = None
    /\ UNCHANGED <<config_path, aggregator, config, init_error, module_outputs, result, memo>>

\* clamp, decide and return the result
Return ==
    /\ pc = "decide"
    /\ LET svs_score   == svs_score_of(total_score)
           go_decision == go_decision_of(svs_score, failure_rationale)
       IN  result' = [svs_score |-> svs_score,
                      go_decision |-> go_decision,
                      score_breakdown |-> score_breakdown,
                      failure_rationale |-> failure_rationale]
    /\ pc' = "idle"
    /\ NoFrame
    /\ UNCHANGED <<config_path, aggregator, config, init_error, module_outputs, error, memo>>

\* history: keep one completed call to compare later calls with
Remember ==
    /\ pc = "idle"
    /\ memo = None
    /\ result # None \/ error # None
    /\ memo' = [module_outputs |-> module_outputs, result |-> result, error |-> error,
                other |-> FALSE]
    /\ UNCHANGED <<config_path, aggregator, config, init_error, pc, module_outputs, idx,
                   score_breakdown, failure_rationale, total_score, result, error>>

\* the caller drops the argument and the outcome of the completed call
Release ==
    /\ pc = "idle"
    /\ module_outputs # None
    /\ module_outputs' = None
    /\ result' = None
    /\ error' = None
    /\ UNCHANGED <<config_path, aggregator, config, init_error, pc, idx,
                   score_breakdown, failure_rationale, total_score, memo>>

\* Calls over all of Inputs, each made once the outcome of the call before it
\* is released (Call overwrites all that Release clears, so a call made
\* without the release goes through the same states from its entry on).
Next ==
    \/ \E source \in ConfigSources : Construct(source)
    \/ \E outputs \in Inputs : module_outputs = None /\ Call(outputs)
    \/ ScoreModule
    \/ Return
    \/ Release

Spec == Init /\ [][Next]_vars

\* Calls over ReplayInputs, made back to back, with one completed call kept
\* in memo.

NextReplay ==
    \/ \E source \in ConfigSources : Construct(source)
    \/ \E outputs \in ReplayInputs : Call(outputs)
    \/ ScoreModule
    \/ Return
    \/ Remember

SpecReplay == Init /\ [][NextReplay]_vars

-----------------------------------------------------------------------------
(* Properties *)

\* a call has returned a result, and the caller still holds it
Returned == pc = "idle" /\ result # None

\* a call has ended, with a result or an exception
Completed == pc = "idle" /\ module_outputs # None

RECURSIVE SumOver(_, _)
SumOver(f, S) ==
    IF S = {} THEN 0
    ELSE LET k == CHOOSE k \in S : TRUE IN f[k] + SumOver(f, S \ {k})

\* sum(score_breakdown.values()), in 1/Unit of a point
BreakdownSum(r) == SumOver(r.score_breakdown, DOMAIN r.score_breakdown)

Clamp(x, lo, hi) == IF x < lo THEN lo ELSE IF x > hi THEN hi ELSE x

\* x truncated toward zero to a whole number of points
Truncated(x) == IF x >= 0 THEN x \div Unit ELSE -((-x) \div Unit)

Thresholds(module) == config["thresholds"][module]

\* the record of a module in the input of the call
Record(module) == module_outputs.items[module]

(* C1 (as stated): svs_score is the sum of the six values of score_breakdown *)
(* clamped into [0,100].                                                     *)
C1_SvsIsClampedSum ==
    Returned => P(result.svs_score) = Clamp(BreakdownSum(result), 0, P(100))

(* C1 (amended): svs_score is the sum of the six values of score_breakdown,  *)
(* truncated toward zero to a whole number and then clamped into [0,100]; it *)
(* is the clamped sum itself whenever the sum is a whole number.             *)
C1_SvsIsClampedTruncatedSum ==
    Returned =>
        /\ result.svs_score = Clamp(Truncated(BreakdownSum(result)), 0, 100)
        /\ BreakdownSum(result) % Unit = 0 =>
               P(result.svs_score) = Clamp(BreakdownSum(result), 0, P(100))

\* a result whose breakdown sums to more than 100 and not to a whole number
C1_Witness ==
    /\ Returned
    /\ BreakdownSum(result) > P(100)
    /\ BreakdownSum(result) % Unit # 0
    /\ result.svs_score = 100

(* C2: go_decision is "go" if and only if svs_score >= 70 and                *)
(* failure_rationale is empty, and "no-go" otherwise; a sum of exactly 69    *)
(* with no override gives "no-go", a sum of exactly 70 with none gives "go". *)
C2_GoIffScoreAndNoOverride ==
    Returned =>
        /\ result.go_decision \in {"go", "no-go"}
        /\ result.go_decision = "go" <=>
               (result.svs_score >= 70 /\ result.failure_rationale = << >>)
        /\ (BreakdownSum(result) = P(69) /\ result.failure_rationale = << >>) =>
               result.go_decision = "no-go"
        /\ (BreakdownSum(result) = P(70) /\ result.failure_rationale = << >>) =>
               result.go_decision = "go"

\* a sum of exactly 69 and no override: "no-go"
C2_Witness ==
    /\ Returned
    /\ BreakdownSum(result) = P(69)
    /\ result.failure_rationale = << >>
    /\ result.go_decision = "no-go"

(* C3: score_breakdown has exactly the six module keys and every value is    *)
(* >= 0, for every configuration that passes validation.                     *)
C3_BreakdownNonNegative ==
    Returned =>
        /\ DOMAIN result.score_breakdown = Modules
        /\ \A m \in Modules : result.score_breakdown[m] >= 0

(* C4: whenever num_models_flagged is greater than max_flags_allowed (for    *)
(* every value of it, 0 included) the toxicity base score is 0, the reason   *)
(* ">{max} toxicity models flagged" is produced, failure_rationale is not    *)
(* empty and go_decision is "no-go".                                         *)
C4_ExcessFlagsOverride ==
    (Returned /\ get(Record("toxicity"), "num_models_flagged", 0)
                    > Thresholds("toxicity")["max_flags_allowed"]) =>
        /\ result.score_breakdown["toxicity"] = 0
        /\ Len(result.failure_rationale) = 1
        /\ SubSeq(result.failure_rationale[1], 2, 4)
               = <<">", ToString(Thresholds("toxicity")["max_flags_allowed"]),
                   " toxicity models flagged">>
        /\ result.go_decision = "no-go"

\* the input is no mapping, is an empty mapping, or lacks a required module
BadInput(outputs) ==
    \/ outputs.type # "dict"
    \/ DOMAIN outputs.items = {}
    \/ Modules \ DOMAIN outputs.items # {}

(* C5: a scoring call fails with an InputError (a ScoringError of            *)
(* _validate_input), and returns no result, exactly when the input is no     *)
(* mapping, is an empty mapping or lacks a required module key; in the last  *)
(* case the one error lists every missing key.                               *)
C5_InputErrorExactly ==
    Completed =>
        /\ (error # None /\ error.type = "ScoringError") <=> BadInput(module_outputs)
        /\ BadInput(module_outputs) => result = None
        /\ (module_outputs.type = "dict" /\ DOMAIN module_outputs.items # {}
              /\ Modules \ DOMAIN module_outputs.items # {}) =>
               /\ error.msg = "Missing required modules: "
               /\ Range(error.args) = Modules \ DOMAIN module_outputs.items
               /\ Len(error.args) = Cardinality(Modules \ DOMAIN module_outputs.items)

\* scenario E: toxicity and off_target left out, both listed
C5_Witness ==
    /\ Completed
    /\ module_outputs.type = "dict"
    /\ Modules \ DOMAIN module_outputs.items = {"toxicity", "off_target"}
    /\ error = ScoringError("Missing required modules: ", <<"toxicity", "off_target">>)
    /\ result = None

\* the modules a section of a document lacks
Lacking(doc, section) == Modules \ DOMAIN doc[section]

\* the source cannot give a configuration that passes validation
BadSource(source) ==
    \/ ~source.exists
    \/ ~source.parses
    \/ source.document = << >>
    \/ \E sec \in Range(required_sections) : sec \notin DOMAIN source.document
    \/ \E sec \in Range(required_sections) : Lacking(source.document, sec) # {}

SameAsRemembered ==
    (Completed /\ memo # None /\ module_outputs = memo.module_outputs) =>
        /\ result = memo.result
        /\ error = memo.error

\* no step of a scoring call changes the loaded configuration or the input
CallKeepsConfigAndInput ==
    /\ aggregator = "ready" => config' = config
    /\ pc = "score" \/ pc = "decide" => module_outputs' = module_outputs

(* C7: on one instance, after any sequence of earlier calls, successful or   *)
(* failing, a call with a given input returns exactly the result of an       *)
(* earlier call with that input, and no scoring call changes the loaded      *)
(* configuration or the input bundle.                                        *)
C7_Idempotent == []SameAsRemembered /\ [][CallKeepsConfigAndInput]_vars

\* a result returned again after a call with another input was made in between
C7_Witness ==
    /\ Returned
    /\ memo # None
    /\ memo.other
    /\ module_outputs = memo.module_outputs
    /\ result = memo.result
    /\ result.failure_rationale = << >>

(* C8: a violation count greater than the largest key K of the score table   *)
(* scores as exactly K violations; an absent num_violations scores as K; a   *)
(* count that is no key of the table after clamping scores 0.                *)
C8_DrugLikenessClamped ==
    Returned =>
        LET table == Thresholds("drug_likeness")["score_by_violations"]
            K     == CHOOSE k \in DOMAIN table : \A j \in DOMAIN table : j <= k
            score == result.score_breakdown["drug_likeness"]
        IN  IF ~has(Record("drug_likeness"), "num_violations") THEN score = table[K]
            ELSE LET v == Record("drug_likeness").items["num_violations"]
                 IN  /\ v > K => score = table[K]
                     /\ (v <= K /\ v \notin DOMAIN table) => score = 0
                     /\ v \in DOMAIN table => score = table[v]

\* 99 violations against a table whose largest key is 5 and scores 1 point
C8_Witness ==
    /\ Returned
    /\ get(Record("drug_likeness"), "num_violations", 0) = 99
    /\ Thresholds("drug_likeness")["score_by_violations"] =
           (0 :> P(10)) @@ (2 :> P(4)) @@ (5 :> P(1))
    /\ result.score_breakdown["drug_likeness"] = P(1)

(* C9: module scores never exceed the module's maximum weight:               *)
(* score_breakdown["off_target"] <= 15 and score_breakdown["druggability"]   *)
(* <= 10, also for an input that reaches the top tier and earns the bonus.   *)
C9_ModuleScoresWithinWeights ==
    Returned =>
        /\ result.score_breakdown["off_target"] <= P(15)
        /\ result.score_breakdown["druggability"] <= P(10)

(* C10: a docking record whose affinity_kcal is exactly affinity.high, with  *)
(* rmsd exactly rmsd_max and num_converged_poses exactly min_poses, receives *)
(* the full docking score of 25.                                             *)
C10_ExactThresholdsInclusive ==
    (/\ Returned
     /\ get(Record("docking"), "affinity_kcal", 0) = Thresholds("docking")["affinity"]["high"]
     /\ get(Record("docking"), "rmsd", Inf) = Thresholds("docking")["rmsd_max"]
     /\ get(Record("docking"), "num_converged_poses", 0) = Thresholds("docking")["min_poses"])
    => result.score_breakdown["docking"] = P(25)

\* the entries of high_risk_models that are in override_models, in order
OverrideHits ==
    SelectSeq(get(Record("toxicity"), "high_risk_models", << >>),
              LAMBDA m : m \in Range(Thresholds("toxicity")["override_models"]))

\* the score of the flag count alone: 20 for no flag, 10 for one, else 0
FlagCountBase ==
    LET n == get(Record("toxicity"), "num_models_flagged", 0)
    IN  IF n = 0 THEN P(20) ELSE IF n = 1 THEN P(10) ELSE 0

\* "High-risk models flagged: a, b"
HighRiskReason == <<"High-risk models flagged: ">> \o join(", ", OverrideHits)

\* ">{max} toxicity models flagged"
FlagCountReason ==
    <<">", ToString(Thresholds("toxicity")["max_flags_allowed"]), " toxicity models flagged">>

(* C11: when high_risk_models has k >= 1 entries that are in override_models *)
(* the toxicity score is max(base - 10*k, 0) and an override reason naming   *)
(* those models is produced, joined after the flag-count reason with "; "    *)
(* when both are present; failure_rationale is not empty and go_decision is  *)
(* "no-go", also when num_models_flagged is 0 or 1.                          *)
C11_OverrideModelsPenalty ==
    (Returned /\ Len(OverrideHits) >= 1) =>
        LET n == get(Record("toxicity"), "num_models_flagged", 0)
        IN  /\ result.score_breakdown["toxicity"]
                 = max2(FlagCountBase - P(10) * Len(OverrideHits), 0)
            /\ Len(result.failure_rationale) = 1
            /\ \/ result.failure_rationale[1]
                    = <<"Toxicity override triggered: ">> \o HighRiskReason
               \/ result.failure_rationale[1]
                    = <<"Toxicity override triggered: ">> \o FlagCountReason
                        \o <<"; ">> \o HighRiskReason
            /\ (n >= 2 /\ n > Thresholds("toxicity")["max_flags_allowed"]) =>
                   result.failure_rationale[1]
                     = <<"Toxicity override triggered: ">> \o FlagCountReason
                         \o <<"; ">> \o HighRiskReason
            /\ result.go_decision = "no-go"

\* no model flagged by count, one listed high-risk model, a total of 70 or more
C11_Witness ==
    /\ Returned
    /\ Len(OverrideHits) = 1
    /\ get(Record("toxicity"), "num_models_flagged", 0) = 0
    /\ result.score_breakdown["toxicity"] = P(10)
    /\ result.svs_score >= 70
    /\ result.go_decision = "no-go"

(* C12: when max_flags_allowed > 1, num_models_flagged is in                 *)
(* 2..max_flags_allowed and no high-risk model is in override_models, the    *)
(* toxicity score is 0 and no override reason is produced: failure_rationale *)
(* stays empty and go_decision is decided by the total alone.                *)
C12_ToxicityGap ==
    (/\ Returned
     /\ Thresholds("toxicity")["max_flags_allowed"] > 1
     /\ get(Record("toxicity"), "num_models_flagged", 0) >= 2
     /\ get(Record("toxicity"), "num_models_flagged", 0)
           <= Thresholds("toxicity")["max_flags_allowed"]
     /\ Len(OverrideHits) = 0)
    =>  /\ result.score_breakdown["toxicity"] = 0
        /\ result.failure_rationale = << >>
        /\ result.go_decision = "go" <=> result.svs_score >= 70

\* as many flags as the maximum allows, a total of 70 or more: "go"
C12_Witness ==
    /\ Returned
    /\ Thresholds("toxicity")["max_flags_allowed"] > 1
    /\ get(Record("toxicity"), "num_models_flagged", 0)
          = Thresholds("toxicity")["max_flags_allowed"]
    /\ Len(OverrideHits) = 0
    /\ result.score_breakdown["toxicity"] = 0
    /\ result.go_decision = "go"

\* the docking record has the field and its value is below the bound
Below(field, bound) ==
    has(Record("docking"), field) /\ Record("docking").items[field] < bound

\* the docking record has the field and its value is above the bound
Above(field, bound) ==
    has(Record("docking"), field) /\ Record("docking").items[field] > bound

\* the affinity tier of the docking record, an absent affinity_kcal being 0
DockingTier ==
    LET affinity == IF has(Record("docking"), "affinity_kcal")
                    THEN Record("docking").items["affinity_kcal"] ELSE 0
        bounds   == Thresholds("docking")["affinity"]
    IN  IF affinity < bounds["high"] THEN 25
        ELSE IF affinity < bounds["medium"] THEN 20
        ELSE IF affinity < bounds["low"] THEN 10
        ELSE 0

\* rmsd > rmsd_max or num_converged_poses < min_poses, an absent rmsd being
\* +infinity and an absent num_converged_poses 0
DockingPenalised ==
    \/ ~has(Record("docking"), "rmsd")
    \/ Above("rmsd", Thresholds("docking")["rmsd_max"])
    \/ ~has(Record("docking"), "num_converged_poses") /\ 0 < Thresholds("docking")["min_poses"]
    \/ Below("num_converged_poses", Thresholds("docking")["min_poses"])

RuleOrder ==
    <<"docking", "adme_pk", "toxicity", "druggability", "drug_likeness", "off_target">>

\* the rules that have run when the loop is at position i
RulesBefore(i) == {RuleOrder[j] : j \in 1..(i - 1)}

\* where a call can be, and what it holds there
CallPositions ==
    /\ pc \in {"idle", "score", "decide"}
    /\ pc = "score" =>
          /\ idx \in 1..6
          /\ ~BadInput(module_outputs)
          /\ DOMAIN score_breakdown = RulesBefore(idx)
          /\ result = None /\ error = None
    /\ pc = "decide" =>
          /\ idx = 7
          /\ DOMAIN score_breakdown = Modules
          /\ total_score = SumOver(score_breakdown, Modules)
          /\ result = None /\ error = None
    /\ pc = "idle" => score_breakdown = << >> /\ idx = 0
    /\ error # None => pc = "idle" /\ result = None
    /\ result # None => error = None /\ DOMAIN result.score_breakdown = Modules
    /\ Completed => (result # None) # (error # None)

\* what one step of a call does
CallStep ==
    /\ (pc = "idle" /\ pc' = "score") =>
          /\ ~BadInput(module_outputs')
          /\ idx' = 1 /\ score_breakdown' = << >>
    /\ pc = "score" =>
          \/ /\ error' # None /\ result' = None
             /\ pc' = "idle" /\ score_breakdown' = << >>
          \/ /\ error' = None /\ result' = None
             /\ idx' = idx + 1
             /\ pc' = IF idx = 6 THEN "decide" ELSE "score"
             /\ RuleOrder[idx] \notin DOMAIN score_breakdown
             /\ DOMAIN score_breakdown' = DOMAIN score_breakdown \cup {RuleOrder[idx]}
             /\ \A m \in DOMAIN score_breakdown : score_breakdown'[m] = score_breakdown[m]
             /\ total_score' = total_score + score_breakdown'[RuleOrder[idx]]
    /\ pc = "decide" =>
          /\ pc' = "idle" /\ error' = None
          /\ result' # None
          /\ result'.score_breakdown = score_breakdown
          /\ result'.svs_score = Clamp(Truncated(total_score), 0, 100)

(* C14: a scoring call is a single pass in a fixed order: input validation   *)
(* completes before any module rule runs; the six rules run exactly once     *)
(* each in the order docking, adme_pk, toxicity, druggability,               *)
(* drug_likeness, off_target; then sum, clamp, decide; a failure at any step *)
(* ends the call with an error, no partial result is ever returned and       *)
(* nothing is retried.                                                       *)
C14_SinglePass == []CallPositions /\ [][CallStep]_vars

\* a call that failed at its third rule, after two rules had run
C14_Witness ==
    /\ Completed
    /\ ~BadInput(module_outputs)
    /\ Record("docking").type = "dict" /\ Record("adme_pk").type = "dict"
    /\ Record("toxicity").type # "dict"
    /\ error = AttributeError
    /\ result = None
    /\ score_breakdown = << >>

====
